---- MODULE Spec2Model ----
(***************************************************************************)
(* A model of the nyuki agent: the lifecycle controller (nyuki/nyuki.py),  *)
(* the HTTP layer (nyuki/api.py) and, from the specification, the Bus, the *)
(* Exposer, the EventLoop wrapper and the configuration merge they call.   *)
(*                                                                         *)
(* The main thread is a call stack of frames.  The frame on top runs, one  *)
(* statement per step.  A signal handler installed with signal.signal runs *)
(* on top of whatever the main thread is executing, so a registered signal *)
(* pushes an abort frame at any statement boundary.  Loop tasks (HTTP      *)
(* requests, bus transport callbacks, application calls of stop) start     *)
(* only when the loop is running and idle.                                 *)
(***************************************************************************)
EXTENDS Naturals, Sequences, FiniteSets, TLC

VARIABLES
    stack,        \* call stack of the main thread, bottom frame first
    proc,         \* "alive", "exited", "crashed" or "killed"
    sigHandlers,  \* signals whose handler is Nyuki.abort
    nSignals,     \* signals delivered so far
    nStops,       \* application calls of stop() so far
    nReq,         \* HTTP requests accepted so far
    loop,         \* event loop: "new", "running", "stopping", "stopped"
    excHandler,   \* app.loop._exception_handler is set
    config,       \* Nyuki._config
    saved,        \* configuration last written by save_config
    buses,        \* every Bus object constructed so far
    selfBus,      \* index in buses of Nyuki._bus
    server,       \* Api._server: "None", "listening" or "closed"
    apiHandler,   \* Api._handler is set
    bound,        \* host:port the server was created on
    routes,       \* capabilities registered in the application router
    conns,        \* other in-flight client connections
    reqConn,      \* connection of the request being handled
    last,         \* the last HTTP response sent
    sent,         \* stanzas the bus handed to the transport, in order
    requests,     \* every bus request made so far, with its resolutions
    pending,      \* the pending-request table: ids awaiting a resolution
    outcome,      \* what the last call of publish or request did
    received,     \* events raised for inbound messages, in order
    messages,     \* Sample.messages
    posted,       \* bodies of the POST /message requests handled so far
    reply         \* the last response of a sample resource

vars == <<stack, proc, sigHandlers, nSignals, nStops, nReq, loop, excHandler,
          config, saved, buses, selfBus, server, apiHandler, bound, routes,
          conns, reqConn, last, sent, requests, pending, outcome, received,
          messages, posted, reply>>

\* The state of the bus traffic and of the sample resources.
traffic == <<sent, requests, pending, outcome, received>>

sample == <<messages, posted, reply>>

(***************************************************************************)
(* Bounds of the model.                                                    *)
(***************************************************************************)
MaxInputs == 2
MaxConns == 1

\* Signals, application calls of stop() and HTTP requests so far.
Inputs == nSignals + nStops + nReq

(***************************************************************************)
(* Program constants and input sets.                                       *)
(***************************************************************************)
DefaultTimeout == 5

Signals == {"SIGTERM", "SIGINT"}

Timeouts == {1, DefaultTimeout}

BusConfs == {"jidA", "jidB"}
ApiConfs == {"0.0.0.0:8080", "0.0.0.0:8081"}
BadValue == "invalid"

Capabilities == {"config", "message"}

NoApi == "unbound"

(***************************************************************************)
(* Frames.                                                                 *)
(***************************************************************************)
Nothing == [type |-> "nothing"]

Frame(op, pc, arg) ==
    [op |-> op, pc |-> pc, arg |-> arg, val |-> Nothing, out |-> Nothing,
     did |-> <<>>]

Top == stack[Len(stack)]

Below == SubSeq(stack, 1, Len(stack) - 1)

Running(op) == proc = "alive" /\ stack # <<>> /\ Top.op = op

\* The top frame moves to pc and records the call it made.
Advance(pc, call) ==
    [stack EXCEPT ![Len(stack)].pc = pc,
                  ![Len(stack)].did = Append(@, call)]

\* The top frame returns nothing to its caller.
Return == Below

\* The loop is running and no task is executing.
Idle ==
    /\ proc = "alive"
    /\ loop = "running"
    /\ Len(stack) = 1
    /\ Top.op = "start"
    /\ Top.pc = "loop"

(***************************************************************************)
(* Exceptions: an exception unwinds the stack to the innermost HTTP        *)
(* request being handled, whose middleware receives it; with no request on *)
(* the stack it leaves start() and ends the process.                       *)
(***************************************************************************)
RequestDepths == {i \in 1..Len(stack) : stack[i].op = "request"}

CatchDepth ==
    IF RequestDepths = {} THEN 0
    ELSE CHOOSE i \in RequestDepths : \A j \in RequestDepths : j <= i

Raised(e) == [type |-> "raise", exc |-> e]

Returned(v) == [type |-> "return", v |-> v]

Raise(e) ==
    IF CatchDepth = 0
    THEN /\ stack' = <<>>
         /\ proc' = "crashed"
    ELSE /\ stack' = [SubSeq(stack, 1, CatchDepth)
                        EXCEPT ![CatchDepth].pc = "after",
                               ![CatchDepth].val = Raised(e)]
         /\ proc' = proc

(***************************************************************************)
(* Bus (from the specification): connect() and disconnect() only request   *)
(* the transition; the transport callbacks, which are loop tasks, complete *)
(* it and raise the event through the EventManager.                        *)
(***************************************************************************)
NoTimeout == 0

NewBus(conf) ==
    [conf |-> conf, state |-> "Disconnected", events |-> <<>>,
     discReq |-> FALSE, timeout |-> NoTimeout]

BusConnect(b) ==
    IF b.state = "Disconnected"
    THEN [b EXCEPT !.state = "Connecting"]
    ELSE b

\* A disconnect that drops the session at once.
BusDisconnectAtOnce(b, t) ==
    IF b.state \in {"Connecting", "Connected"}
    THEN [b EXCEPT !.state = "Disconnected", !.discReq = TRUE, !.timeout = t]
    ELSE b

BusDisconnect(b, t) ==
    IF b.state \in {"Connecting", "Connected"}
    THEN [b EXCEPT !.state = "Disconnecting", !.discReq = TRUE, !.timeout = t]
    ELSE b

Live(b) == b.state \in {"Connecting", "Connected", "Disconnecting"}

OnStart ==
    /\ Idle
    /\ \E i \in 1..Len(buses) :
        /\ buses[i].state = "Connecting"
        /\ buses' = [buses EXCEPT ![i].state = "Connected",
                                  ![i].events = Append(@, "Connected")]
    /\ UNCHANGED <<stack, proc, sigHandlers, nSignals, nStops, nReq, loop,
                   excHandler, config, saved, selfBus, server, apiHandler,
                   bound, routes, conns, reqConn, last,
                   traffic, sample>>

OnFailure ==
    /\ Idle
    /\ \E i \in 1..Len(buses) :
        /\ buses[i].state = "Connecting"
        /\ buses' = [buses EXCEPT
                        ![i].state = "Disconnected",
                        ![i].events = @ \o <<"ConnectionError", "Disconnected">>]
    /\ UNCHANGED <<stack, proc, sigHandlers, nSignals, nStops, nReq, loop,
                   excHandler, config, saved, selfBus, server, apiHandler,
                   bound, routes, conns, reqConn, last,
                   traffic, sample>>

OnDisconnect ==
    /\ Idle
    /\ \E i \in 1..Len(buses) :
        /\ buses[i].state = "Disconnecting"
        /\ buses' = [buses EXCEPT ![i].state = "Disconnected",
                                  ![i].events = Append(@, "Disconnected")]
    /\ UNCHANGED <<stack, proc, sigHandlers, nSignals, nStops, nReq, loop,
                   excHandler, config, saved, selfBus, server, apiHandler,
                   bound, routes, conns, reqConn, last,
                   traffic, sample>>

LastEvent(b) == IF b.events = <<>> THEN "none" ELSE b.events[Len(b.events)]

\* Bus._on_register: the registration IQ sent when the session opens got
\* no answer in time; once per session.
OnRegister ==
    /\ Idle
    /\ \E i \in 1..Len(buses) :
        /\ buses[i].state = "Connecting"
        /\ LastEvent(buses[i]) # "ConnectionError"
        /\ buses' = [buses EXCEPT ![i].events = Append(@, "ConnectionError")]
    /\ UNCHANGED <<stack, proc, sigHandlers, nSignals, nStops, nReq, loop,
                   excHandler, config, saved, selfBus, server, apiHandler,
                   bound, routes, conns, reqConn, last,
                   traffic, sample>>

(***************************************************************************)
(* Api.build and Api.destroy, one statement per step.                      *)
(***************************************************************************)
BuildMakeHandler ==
    /\ Running("build")
    /\ Top.pc = "make_handler"
    /\ apiHandler' = TRUE
    /\ stack' = Advance("create_server", "make_handler")
    /\ UNCHANGED <<proc, sigHandlers, nSignals, nStops, nReq, loop, excHandler,
                   config, saved, buses, selfBus, server, bound, routes, conns,
                   reqConn, last,
                   traffic, sample>>

BuildCreateServer ==
    /\ Running("build")
    /\ Top.pc = "create_server"
    /\ server' = "listening"
    /\ bound' = Top.arg
    /\ stack' = Return
    /\ UNCHANGED <<proc, sigHandlers, nSignals, nStops, nReq, loop, excHandler,
                   config, saved, buses, selfBus, apiHandler, routes, conns,
                   reqConn, last,
                   traffic, sample>>

\* self._server.close(): an AttributeError while self._server is None.
DestroyClose ==
    /\ Running("destroy")
    /\ Top.pc = "close"
    /\ IF server = "None"
       THEN /\ Raise("AttributeError")
            /\ UNCHANGED server
       ELSE /\ server' = "closed"
            /\ stack' = Advance("finish_connections", "close")
            /\ proc' = proc
    /\ UNCHANGED <<sigHandlers, nSignals, nStops, nReq, loop, excHandler,
                   config, saved, buses, selfBus, apiHandler, bound, routes,
                   conns, reqConn, last,
                   traffic, sample>>

\* A finish_connections() that waits until no connection is in flight.
CanFinishWhenDrained(n) == n = 0

\* finish_connections() is called without a timeout: it waits for no
\* in-flight connection and closes every transport at once, so it can
\* return whatever the number n of connections still in flight.
CanFinish(n) == TRUE

FinishRequest(c) == IF c = "open" THEN "closed" ELSE c

DestroyFinish ==
    /\ Running("destroy")
    /\ Top.pc = "finish_connections"
    /\ CanFinish(conns)
    /\ conns' = 0
    /\ reqConn' = FinishRequest(reqConn)
    /\ stack' = Advance("wait_closed", "finish_connections")
    /\ UNCHANGED <<proc, sigHandlers, nSignals, nStops, nReq, loop, excHandler,
                   config, saved, buses, selfBus, server, apiHandler, bound,
                   routes, last,
                   traffic, sample>>

DestroyWaitClosed ==
    /\ Running("destroy")
    /\ Top.pc = "wait_closed"
    /\ server = "closed"
    /\ stack' = Return
    /\ UNCHANGED <<proc, sigHandlers, nSignals, nStops, nReq, loop, excHandler,
                   config, saved, buses, selfBus, server, apiHandler, bound,
                   routes, conns, reqConn, last,
                   traffic, sample>>

(***************************************************************************)
(* Nyuki.start                                                             *)
(***************************************************************************)
StartSigterm ==
    /\ Running("start")
    /\ Top.pc = "sigterm"
    /\ sigHandlers' = sigHandlers \cup {"SIGTERM"}
    /\ stack' = Advance("sigint", "signal")
    /\ UNCHANGED <<proc, nSignals, nStops, nReq, loop, excHandler, config,
                   saved, buses, selfBus, server, apiHandler, bound, routes,
                   conns, reqConn, last,
                   traffic, sample>>

StartSigint ==
    /\ Running("start")
    /\ Top.pc = "sigint"
    /\ sigHandlers' = sigHandlers \cup {"SIGINT"}
    /\ stack' = Advance("connect", "signal")
    /\ UNCHANGED <<proc, nSignals, nStops, nReq, loop, excHandler, config,
                   saved, buses, selfBus, server, apiHandler, bound, routes,
                   conns, reqConn, last,
                   traffic, sample>>

StartConnect ==
    /\ Running("start")
    /\ Top.pc = "connect"
    /\ buses' = [buses EXCEPT ![selfBus] = BusConnect(@)]
    /\ stack' = Advance("expose", "connect")
    /\ UNCHANGED <<proc, sigHandlers, nSignals, nStops, nReq, loop, excHandler,
                   config, saved, selfBus, server, apiHandler, bound, routes,
                   conns, reqConn, last,
                   traffic, sample>>

\* Exposer.expose (from the specification): builds the routing table from
\* the registered capabilities, then builds the server.
StartExpose ==
    /\ Running("start")
    /\ Top.pc = "expose"
    /\ routes' = Capabilities
    /\ stack' = Append(Advance("run", "expose"),
                       Frame("build", "make_handler", config.api))
    /\ UNCHANGED <<proc, sigHandlers, nSignals, nStops, nReq, loop, excHandler,
                   config, saved, buses, selfBus, server, apiHandler, bound,
                   conns, reqConn, last,
                   traffic, sample>>

\* event_loop.start(block=True): a loop stopped before it ran returns at
\* once.
StartRun ==
    /\ Running("start")
    /\ Top.pc = "run"
    /\ loop' = IF loop = "new" THEN "running" ELSE loop
    /\ stack' = Advance("loop", "loop.start")
    /\ UNCHANGED <<proc, sigHandlers, nSignals, nStops, nReq, excHandler,
                   config, saved, buses, selfBus, server, apiHandler, bound,
                   routes, conns, reqConn, last,
                   traffic, sample>>

\* The loop leaves run_forever once stop was requested and the task that
\* requested it has returned; start() returns and the process ends.
LoopExit ==
    /\ Running("start")
    /\ Top.pc = "loop"
    /\ Len(stack) = 1
    /\ loop = "stopping"
    /\ loop' = "stopped"
    /\ stack' = <<>>
    /\ proc' = "exited"
    /\ UNCHANGED <<sigHandlers, nSignals, nStops, nReq, excHandler, config,
                   saved, buses, selfBus, server, apiHandler, bound, routes,
                   conns, reqConn, last,
                   traffic, sample>>

(***************************************************************************)
(* Nyuki.stop and Nyuki.abort                                              *)
(***************************************************************************)
\* A stop that disconnects the bus before it shuts the Exposer down.
StopOrderDisconnectFirst == <<"disconnect", "shutdown", "loop.stop">>

StopOrder == <<"shutdown", "disconnect", "loop.stop">>

LoopStop(l) == IF l = "stopped" THEN l ELSE "stopping"

StopStep ==
    /\ Running("stop")
    /\ Top.pc \in 1..Len(StopOrder)
    /\ LET call == StopOrder[Top.pc]
           next == Advance(Top.pc + 1, call)
       IN  /\ stack' = IF call = "shutdown"
                       THEN Append(next, Frame("destroy", "close", Nothing))
                       ELSE next
           /\ buses' = IF call = "disconnect"
                       THEN [buses EXCEPT
                               ![selfBus] = BusDisconnect(@, Top.arg)]
                       ELSE buses
           /\ loop' = IF call = "loop.stop" THEN LoopStop(loop) ELSE loop
    /\ UNCHANGED <<proc, sigHandlers, nSignals, nStops, nReq, excHandler,
                   config, saved, selfBus, server, apiHandler, bound, routes,
                   conns, reqConn, last,
                   traffic, sample>>

StopReturn ==
    /\ Running("stop")
    /\ Top.pc = Len(StopOrder) + 1
    /\ stack' = Return
    /\ UNCHANGED <<proc, sigHandlers, nSignals, nStops, nReq, loop, excHandler,
                   config, saved, buses, selfBus, server, apiHandler, bound,
                   routes, conns, reqConn, last,
                   traffic, sample>>

\* A signal: abort runs on top of the interrupted code when start() has
\* registered it; otherwise the default disposition ends the process.
Signal ==
    /\ proc = "alive"
    /\ Inputs < MaxInputs
    /\ nSignals' = nSignals + 1
    /\ \E sig \in Signals :
        IF sig \in sigHandlers
        THEN /\ stack' = Append(stack, Frame("abort", "stop", Nothing))
             /\ proc' = proc
        ELSE /\ stack' = <<>>
             /\ proc' = "killed"
    /\ UNCHANGED <<sigHandlers, nStops, nReq, loop, excHandler, config, saved,
                   buses, selfBus, server, apiHandler, bound, routes, conns,
                   reqConn, last,
                   traffic, sample>>

AbortStop ==
    /\ Running("abort")
    /\ Top.pc = "stop"
    /\ stack' = Append(Advance("return", "stop"),
                       Frame("stop", 1, DefaultTimeout))
    /\ UNCHANGED <<proc, sigHandlers, nSignals, nStops, nReq, loop, excHandler,
                   config, saved, buses, selfBus, server, apiHandler, bound,
                   routes, conns, reqConn, last,
                   traffic, sample>>

AbortReturn ==
    /\ Running("abort")
    /\ Top.pc = "return"
    /\ stack' = Return
    /\ UNCHANGED <<proc, sigHandlers, nSignals, nStops, nReq, loop, excHandler,
                   config, saved, buses, selfBus, server, apiHandler, bound,
                   routes, conns, reqConn, last,
                   traffic, sample>>

\* The application calls stop(timeout) from a loop task.
UserStop ==
    /\ Idle
    /\ Inputs < MaxInputs
    /\ nStops' = nStops + 1
    /\ \E t \in Timeouts :
        stack' = Append(stack, Frame("stop", 1, t))
    /\ UNCHANGED <<proc, sigHandlers, nSignals, nReq, loop, excHandler, config,
                   saved, buses, selfBus, server, apiHandler, bound, routes,
                   conns, reqConn, last,
                   traffic, sample>>

(***************************************************************************)
(* Python values a capability handler hands to the middleware.             *)
(***************************************************************************)
JsonBody(tag) == [tag |-> tag]

ConfigBody(c) == [tag |-> "config", config |-> c]

ErrorBody(msg) == [tag |-> "error", error |-> msg]

Response(status, body) == [type |-> "Response", status |-> status, body |-> body]

NoneValue == [type |-> "None", status |-> 0, body |-> JsonBody("none")]

DictValue(tag) == [type |-> "dict", status |-> 0, body |-> JsonBody(tag)]

\* web.Response(): status 200, no body.
EmptyResponse == Response(200, JsonBody("empty"))

\* Truth by content, as if a Response with an empty body were false.
TruthyByLength(v) == v.type # "None" /\ v.body # JsonBody("empty")

\* Truth value of a Python object: None and an empty dict are false; a
\* Response defines neither __bool__ nor __len__ and is true.
Truthy(v) ==
    CASE v.type = "None" -> FALSE
      [] v.type = "Response" -> TRUE
      [] OTHER -> v.body # JsonBody("empty")

IsResponse(v) == v.type = "Response"

\* A middleware that reports "not found" like any other exception.
mw_capability_reports_all(res, handlerSet) ==
    IF res.type = "raise"
    THEN [out |-> Raised(res.exc),
          hook |-> IF handlerSet THEN <<res.exc>> ELSE <<>>]
    ELSE IF Truthy(res.v) /\ IsResponse(res.v)
         THEN [out |-> Returned(res.v), hook |-> <<>>]
         ELSE [out |-> Returned(EmptyResponse), hook |-> <<>>]

\* A middleware that answers a programming error itself.
mw_capability_swallows(res, handlerSet) ==
    IF res.type = "raise"
    THEN IF res.exc = "HTTPNotFound"
         THEN [out |-> Raised(res.exc), hook |-> <<>>]
         ELSE [out |-> Returned(Response(500, JsonBody("server error"))),
               hook |-> IF handlerSet THEN <<res.exc>> ELSE <<>>]
    ELSE IF Truthy(res.v) /\ IsResponse(res.v)
         THEN [out |-> Returned(res.v), hook |-> <<>>]
         ELSE [out |-> Returned(EmptyResponse), hook |-> <<>>]

(***************************************************************************)
(* mw_capability.middleware: res is what capa_handler did (returned a      *)
(* value or raised), handlerSet is app.loop._exception_handler.  The       *)
(* result is what the middleware does (out) and the arguments of its calls *)
(* of the exception hook (hook).                                           *)
(***************************************************************************)
mw_capability(res, handlerSet) ==
    IF res.type = "raise"
    THEN IF res.exc = "HTTPNotFound"
         THEN [out |-> Raised(res.exc), hook |-> <<>>]
         ELSE [out |-> Raised(res.exc),
               hook |-> IF handlerSet THEN <<res.exc>> ELSE <<>>]
    ELSE IF Truthy(res.v) /\ IsResponse(res.v)
         THEN [out |-> Returned(res.v), hook |-> <<>>]
         ELSE [out |-> Returned(EmptyResponse), hook |-> <<>>]

\* The HTTP server above the middleware (from the specification): a
\* returned response is sent as it is, "not found" is a 404 and any other
\* exception becomes a generic failure response.
ServerRespond(out) ==
    IF out.type = "return"
    THEN [status |-> out.v.status, body |-> out.v.body]
    ELSE IF out.exc = "HTTPNotFound"
         THEN [status |-> 404, body |-> JsonBody("not found")]
         ELSE [status |-> 500, body |-> JsonBody("server error")]

(***************************************************************************)
(* Configuration                                                           *)
(***************************************************************************)
Absent == "absent"

Patches == [bus : {"jidB", Absent, BadValue},
            api : {"0.0.0.0:8081", Absent, BadValue}]

Valid(c) == c.bus \in BusConfs /\ c.api \in ApiConfs

\* merge_configs (from the specification): the patch overrides the keys it
\* names; the result is validated against the schema.
merge_configs(c, p) ==
    [bus |-> IF p.bus = Absent THEN c.bus ELSE p.bus,
     api |-> IF p.api = Absent THEN c.api ELSE p.api]

\* An update that assigns the merged configuration before it is validated.
update_config_unchecked(c, p) ==
    [ok |-> Valid(merge_configs(c, p)), config |-> merge_configs(c, p)]

\* Nyuki.update_config: the assignment happens only when merge_configs
\* returned, that is when it raised no ValidationError.
update_config(c, p) ==
    IF Valid(merge_configs(c, p))
    THEN [ok |-> TRUE, config |-> merge_configs(c, p)]
    ELSE [ok |-> FALSE, config |-> c]

(***************************************************************************)
(* HTTP requests                                                           *)
(***************************************************************************)
HandlerOutcomes ==
    {Returned(v) : v \in {Response(200, JsonBody("data")),
                          Response(404, JsonBody("empty")),
                          NoneValue,
                          DictValue("data"),
                          DictValue("empty")}}
    \cup {Raised(e) : e \in {"HTTPNotFound", "KeyError"}}

Requests ==
    {[kind |-> "PATCH /config", route |-> "config", payload |-> p] :
        p \in Patches}
    \cup {[kind |-> "GET /config", route |-> "config", payload |-> Nothing]}
    \cup {[kind |-> "capability", route |-> "message", payload |-> o] :
            o \in HandlerOutcomes}

\* A client connection that stays in flight.
ClientConnect ==
    /\ Idle
    /\ server = "listening"
    /\ conns < MaxConns
    /\ conns' = conns + 1
    /\ UNCHANGED <<stack, proc, sigHandlers, nSignals, nStops, nReq, loop,
                   excHandler, config, saved, buses, selfBus, server,
                   apiHandler, bound, routes, reqConn, last,
                   traffic, sample>>

HttpRequest ==
    /\ Idle
    /\ server = "listening"
    /\ Inputs < MaxInputs
    /\ nReq' = nReq + 1
    /\ reqConn' = "open"
    /\ \E req \in Requests :
        /\ req.route \in routes
        /\ stack' = Append(stack, Frame("request", "call", req))
    /\ UNCHANGED <<proc, sigHandlers, nSignals, nStops, loop, excHandler,
                   config, saved, buses, selfBus, server, apiHandler, bound,
                   routes, conns, last,
                   traffic, sample>>

\* capa_resp = await capa_handler(request, **request.match_info)
RequestCall ==
    /\ Running("request")
    /\ Top.pc = "call"
    /\ stack' =
        CASE Top.arg.kind = "PATCH /config" ->
                Append([stack EXCEPT ![Len(stack)].pc = "after"],
                       Frame("patch", "update_config", Top.arg.payload))
          [] Top.arg.kind = "GET /config" ->
                [stack EXCEPT ![Len(stack)].pc = "after",
                              ![Len(stack)].val =
                                    Returned(Response(200, ConfigBody(config)))]
          [] OTHER ->
                [stack EXCEPT ![Len(stack)].pc = "after",
                              ![Len(stack)].val = Top.arg.payload]
    /\ UNCHANGED <<proc, sigHandlers, nSignals, nStops, nReq, loop, excHandler,
                   config, saved, buses, selfBus, server, apiHandler, bound,
                   routes, conns, reqConn, last,
                   traffic, sample>>

\* The middleware turns what the handler did into what it does itself.
RequestAfter ==
    /\ Running("request")
    /\ Top.pc = "after"
    /\ stack' = [stack EXCEPT
                    ![Len(stack)].pc = "send",
                    ![Len(stack)].out = mw_capability(Top.val, excHandler)]
    /\ UNCHANGED <<proc, sigHandlers, nSignals, nStops, nReq, loop, excHandler,
                   config, saved, buses, selfBus, server, apiHandler, bound,
                   routes, conns, reqConn, last,
                   traffic, sample>>

\* The server sends the response, which reaches the client when the
\* request's connection is still open.
RequestSend ==
    /\ Running("request")
    /\ Top.pc = "send"
    /\ last' = [type |-> "response",
                status |-> ServerRespond(Top.out.out).status,
                delivered |-> reqConn = "open"]
    /\ reqConn' = "none"
    /\ stack' = Below
    /\ UNCHANGED <<proc, sigHandlers, nSignals, nStops, nReq, loop, excHandler,
                   config, saved, buses, selfBus, server, apiHandler, bound,
                   routes, conns,
                   traffic, sample>>

(***************************************************************************)
(* Nyuki.Configuration.patch                                               *)
(***************************************************************************)
\* The handler returns: the middleware receives its value and the calls
\* it made.
HandlerReturn(v) ==
    [Below EXCEPT ![Len(stack) - 1].val = Returned(v),
                  ![Len(stack) - 1].did = Top.did]

PatchUpdate ==
    /\ Running("patch")
    /\ Top.pc = "update_config"
    /\ LET u == update_config(config, Top.arg)
       IN  /\ config' = u.config
           /\ stack' = IF u.ok
                       THEN Advance("reload", "update_config")
                       ELSE Advance("error", "update_config")
    /\ UNCHANGED <<proc, sigHandlers, nSignals, nStops, nReq, loop, excHandler,
                   saved, buses, selfBus, server, apiHandler, bound, routes,
                   conns, reqConn, last,
                   traffic, sample>>

PatchError ==
    /\ Running("patch")
    /\ Top.pc = "error"
    /\ stack' = HandlerReturn(Response(400, ErrorBody("ValidationError")))
    /\ UNCHANGED <<proc, sigHandlers, nSignals, nStops, nReq, loop, excHandler,
                   config, saved, buses, selfBus, server, apiHandler, bound,
                   routes, conns, reqConn, last,
                   traffic, sample>>

PatchReload ==
    /\ Running("patch")
    /\ Top.pc = "reload"
    /\ stack' = Append(Advance("respond", "reload"), Frame("reload", 1, Nothing))
    /\ UNCHANGED <<proc, sigHandlers, nSignals, nStops, nReq, loop, excHandler,
                   config, saved, buses, selfBus, server, apiHandler, bound,
                   routes, conns, reqConn, last,
                   traffic, sample>>

PatchRespond ==
    /\ Running("patch")
    /\ Top.pc = "respond"
    /\ stack' = HandlerReturn(Response(200, ConfigBody(config)))
    /\ UNCHANGED <<proc, sigHandlers, nSignals, nStops, nReq, loop, excHandler,
                   config, saved, buses, selfBus, server, apiHandler, bound,
                   routes, conns, reqConn, last,
                   traffic, sample>>

(***************************************************************************)
(* Nyuki.reload and Exposer.restart                                        *)
(***************************************************************************)
\* A reload that never connects the new bus.
ReloadOrderNoConnect == <<"save_config", "disconnect", "make_bus", "restart">>

\* A reload that never restarts the Exposer.
ReloadOrderNoRestart == <<"save_config", "disconnect", "make_bus", "connect">>

ReloadOrder == <<"save_config", "disconnect", "make_bus", "connect", "restart">>

ReloadStep ==
    /\ Running("reload")
    /\ Top.pc \in 1..Len(ReloadOrder)
    /\ LET call == ReloadOrder[Top.pc]
           next == Advance(Top.pc + 1, call)
       IN  /\ saved' = IF call = "save_config" THEN config ELSE saved
           /\ buses' =
                CASE call = "disconnect" ->
                        [buses EXCEPT ![selfBus] = BusDisconnect(@, NoTimeout)]
                  [] call = "make_bus" -> Append(buses, NewBus(config.bus))
                  [] call = "connect" ->
                        [buses EXCEPT ![selfBus] = BusConnect(@)]
                  [] OTHER -> buses
           /\ selfBus' = IF call = "make_bus" THEN Len(buses) + 1 ELSE selfBus
           /\ stack' = IF call = "restart"
                       THEN Append(next, Frame("restart", "destroy", config.api))
                       ELSE next
    /\ UNCHANGED <<proc, sigHandlers, nSignals, nStops, nReq, loop, excHandler,
                   config, server, apiHandler, bound, routes, conns, reqConn,
                   last,
                   traffic, sample>>

ReloadReturn ==
    /\ Running("reload")
    /\ Top.pc = Len(ReloadOrder) + 1
    /\ stack' = Return
    /\ UNCHANGED <<proc, sigHandlers, nSignals, nStops, nReq, loop, excHandler,
                   config, saved, buses, selfBus, server, apiHandler, bound,
                   routes, conns, reqConn, last,
                   traffic, sample>>

\* Exposer.restart (from the specification): tears the server down and
\* builds it again with the new options; the router is not touched.
RestartDestroy ==
    /\ Running("restart")
    /\ Top.pc = "destroy"
    /\ stack' = Append(Advance("build", "destroy"),
                       Frame("destroy", "close", Nothing))
    /\ UNCHANGED <<proc, sigHandlers, nSignals, nStops, nReq, loop, excHandler,
                   config, saved, buses, selfBus, server, apiHandler, bound,
                   routes, conns, reqConn, last,
                   traffic, sample>>

RestartBuild ==
    /\ Running("restart")
    /\ Top.pc = "build"
    /\ stack' = Append(Advance("return", "build"),
                       Frame("build", "make_handler", Top.arg))
    /\ UNCHANGED <<proc, sigHandlers, nSignals, nStops, nReq, loop, excHandler,
                   config, saved, buses, selfBus, server, apiHandler, bound,
                   routes, conns, reqConn, last,
                   traffic, sample>>

RestartReturn ==
    /\ Running("restart")
    /\ Top.pc = "return"
    /\ stack' = Return
    /\ UNCHANGED <<proc, sigHandlers, nSignals, nStops, nReq, loop, excHandler,
                   config, saved, buses, selfBus, server, apiHandler, bound,
                   routes, conns, reqConn, last,
                   traffic, sample>>

(***************************************************************************)
(* Bus traffic (from the specification and tests/bus_test.py): publish,    *)
(* request and the classification of inbound messages.                     *)
(***************************************************************************)
MaxTraffic == 4

\* Python values handed to the bus.
PyNone == [py |-> "None", v |-> [tag |-> "None"]]

PyDict(items) == [py |-> "dict", v |-> items]

PyStr(s) == [py |-> "str", v |-> [tag |-> s]]

PyException(e) == [py |-> "exception", v |-> [tag |-> e]]

Payloads == {PyDict([message |-> "test"]), PyStr("not a dict"), PyNone}

Datas == {PyDict([message |-> "text"]), PyNone}

\* json.dumps and json.loads: a text is not the value it encodes, and a
\* text that is not JSON does not decode.
dumps(p) == [text |-> "json", py |-> p.py, v |-> p.v]

RawText == [text |-> "raw", py |-> "str", v |-> [tag |-> "something"]]

loads(t) ==
    IF t.text = "json"
    THEN Returned([py |-> t.py, v |-> t.v])
    ELSE Raised("ValueError")

\* Bus._muc_address: the room of a topic.
muc_address(topic) == <<topic, "@", "mucs.", "localhost">>

OwnTopic == "login"

Stanza(p) ==
    [type |-> "groupchat", to |-> muc_address(OwnTopic), body |-> dumps(p)]

\* A publish that sends whatever it is given.
publish_unchecked(p) == [result |-> Returned(PyNone), stanzas |-> <<Stanza(p)>>]

\* Bus.publish: a payload that is not a dict is a TypeError before
\* anything is built; a dict is sent once to the agent's own topic.
publish(p) ==
    IF p.py # "dict"
    THEN [result |-> Raised("TypeError"), stanzas |-> <<>>]
    ELSE [result |-> Returned(PyNone), stanzas |-> <<Stanza(p)>>]

\* Everything the bus and its callers did and saw so far.
Exchanged == Len(sent) + Len(requests) + Len(received)

NoCall == [op |-> "none"]

Call(op, arg, result) ==
    [op |-> op, arg |-> arg, result |-> result, sentBefore |-> Len(sent),
     receivedBefore |-> Len(received), pendingBefore |-> pending]

Publish ==
    /\ Idle
    /\ Exchanged + Cardinality(pending) < MaxTraffic
    /\ \E p \in Payloads :
        /\ sent' = sent \o publish(p).stanzas
        /\ outcome' = Call("publish", p, publish(p).result)
    /\ UNCHANGED <<stack, proc, sigHandlers, nSignals, nStops, nReq, loop,
                   excHandler, config, saved, buses, selfBus, server,
                   apiHandler, bound, routes, conns, reqConn, last, requests,
                   pending, received, sample>>

\* Bus.request(recipient, endpoint, method, data).
Recipients == {"None", "worker"}

RequestArgs ==
    [recipient : Recipients, endpoint : {"url"}, method : {"get"}, data : Datas]

Url(recipient, endpoint) ==
    <<"http://localhost:8080/", recipient, "/api/", endpoint>>

repr(exc) == <<exc, "()">>

ErrorDoc(a, exc) ==
    PyDict([endpoint |-> Url(a.recipient, a.endpoint),
            error |-> repr(exc),
            data |-> a.data])

TransportErrors == {"ClientOSError", "TimeoutError"}

Classified(exc) == IF exc = "TimeoutError" THEN "timeout" ELSE "error"

\* A request that lets the transport error reach its caller.
request_failed_raises(a, exc) ==
    [result |-> Raised(exc), stanzas |-> <<>>, kind |-> Classified(exc)]

\* The except branch of request: the error document is published and the
\* exception is the value of the call.
request_failed(a, exc) ==
    [result |-> Returned(PyException(exc)),
     stanzas |-> publish(ErrorDoc(a, exc)).stanzas,
     kind |-> Classified(exc)]

\* The response object of a request: .json is the decoded body, None when
\* the body is not JSON, and the text stays available.
BusResponse(status, body) ==
    [py |-> "response",
     v |-> [status |-> status,
            json |-> IF loads(body).type = "return" THEN loads(body).v
                     ELSE PyNone,
            text |-> body]]

\* A pending table that keeps the entry of a finished request.
RemoveNothing(table, id) == table

\* The pending-request table loses the entry of a request when it is
\* resolved or failed.
Remove(table, id) == table \ {id}

Resolve(rs, id, kind, value) ==
    [rs EXCEPT ![id].results = Append(@, [kind |-> kind, value |-> value])]

Request ==
    /\ Idle
    /\ Exchanged + Cardinality(pending) + 1 < MaxTraffic
    /\ \E a \in RequestArgs :
        /\ requests' = Append(requests, [args |-> a, results |-> <<>>])
        /\ outcome' = Call("send", a, Nothing)
    /\ pending' = pending \cup {Len(requests) + 1}
    /\ UNCHANGED <<stack, proc, sigHandlers, nSignals, nStops, nReq, loop,
                   excHandler, config, saved, buses, selfBus, server,
                   apiHandler, bound, routes, conns, reqConn, last, sent,
                   received, sample>>

RequestFailed(id, exc) ==
    LET a == requests[id].args
        f == request_failed(a, exc)
    IN  /\ sent' = sent \o f.stanzas
        /\ requests' = Resolve(requests, id, f.kind, f.result)
        /\ pending' = Remove(pending, id)
        /\ outcome' = Call("request", [id |-> id, exc |-> exc], f.result)

\* The transport refuses the request.
RequestError ==
    /\ Idle
    /\ \E id \in pending : RequestFailed(id, "ClientOSError")
    /\ UNCHANGED <<stack, proc, sigHandlers, nSignals, nStops, nReq, loop,
                   excHandler, config, saved, buses, selfBus, server,
                   apiHandler, bound, routes, conns, reqConn, last, received,
                   sample>>

\* No reply within the timeout of the request.
RequestTimeout ==
    /\ Idle
    /\ \E id \in pending : RequestFailed(id, "TimeoutError")
    /\ UNCHANGED <<stack, proc, sigHandlers, nSignals, nStops, nReq, loop,
                   excHandler, config, saved, buses, selfBus, server,
                   apiHandler, bound, routes, conns, reqConn, last, received,
                   sample>>

\* Inbound messages: the envelope type, the reply-subject (the id of the
\* request answered, NoSubject for none) and the body.
NoSubject == 0

EventBodies == {dumps(PyDict([key |-> "value"]))}

ReplyBodies == {dumps(PyDict([response |-> "text"])), RawText}

InboundMessages ==
    [type : {"groupchat", "chat"}, subject : {NoSubject}, body : EventBodies]
    \cup [type : {"groupchat", "chat"},
          subject : 1..(Len(requests) + 1),
          body : ReplyBodies]

Ignored == [event |-> "none", id |-> NoSubject, payload |-> PyNone]

\* A classification by the envelope alone.
on_message_by_type(m, table) ==
    IF m.type = "groupchat"
    THEN [event |-> "EventReceived", id |-> NoSubject,
          payload |-> BusResponse(200, m.body).v.json]
    ELSE IF m.subject \in table
         THEN [event |-> "ResponseReceived", id |-> m.subject,
               payload |-> BusResponse(200, m.body)]
         ELSE Ignored

\* The event an inbound message raises: a groupchat message with no
\* reply-subject is a broadcast event carrying its decoded body; a reply
\* is the response of the pending request it names.
on_message(m, table) ==
    IF m.subject = NoSubject
    THEN IF m.type = "groupchat"
         THEN [event |-> "EventReceived", id |-> NoSubject,
               payload |-> BusResponse(200, m.body).v.json]
         ELSE Ignored
    ELSE IF m.subject \in table
         THEN [event |-> "ResponseReceived", id |-> m.subject,
               payload |-> BusResponse(200, m.body)]
         ELSE Ignored

Inbound ==
    /\ Idle
    /\ \E m \in InboundMessages :
        LET e == on_message(m, pending)
        IN  /\ e.event = "EventReceived" =>
                    Exchanged + Cardinality(pending) < MaxTraffic
            /\ received' = IF e = Ignored THEN received
                           ELSE Append(received, e)
            /\ requests' = IF e.event = "ResponseReceived"
                           THEN Resolve(requests, e.id, "reply",
                                        Returned(e.payload))
                           ELSE requests
            /\ pending' = IF e.event = "ResponseReceived"
                          THEN Remove(pending, e.id)
                          ELSE pending
            /\ outcome' = Call("inbound", m, Nothing)
    /\ UNCHANGED <<stack, proc, sigHandlers, nSignals, nStops, nReq, loop,
                   excHandler, config, saved, buses, selfBus, server,
                   apiHandler, bound, routes, conns, reqConn, last, sent,
                   sample>>

(***************************************************************************)
(* The sample agent (examples/sample.py): the resources /message and       *)
(* /message/{mid:\d+} over Sample.messages.  A key and a path segment are  *)
(* sequences of characters.                                                *)
(***************************************************************************)
MaxPosts == 2
MaxIdLen == 2

InitialMessages == (<<"1">> :> "message 1") @@ (<<"2">> :> "message 2")

Digits == {"0", "1", "2", "3", "4", "5", "6", "7", "8", "9"}

Alphabet == {"1", "3", "x"}

NoId == <<>>

Ids == UNION {[1..n -> Alphabet] : n \in 1..MaxIdLen}

PostKeys == {<<"1">>, <<"3">>}

PostValues == {"hi", "yo"}

\* The JSON bodies posted: dicts over the keys, and a string.
PostBodies ==
    {[py |-> "dict", items |-> f] :
        f \in UNION {[K -> PostValues] : K \in SUBSET PostKeys}}
    \cup {[py |-> "str", items |-> <<>>]}

NoBody == [py |-> "None", items |-> <<>>]

SampleRequests ==
    {[method |-> "GET", id |-> NoId, body |-> NoBody]}
    \cup {[method |-> "POST", id |-> NoId, body |-> b] : b \in PostBodies}
    \cup {[method |-> "GET", id |-> i, body |-> NoBody] : i \in Ids}

MessagesBody(m) == [messages |-> m]

MessageBody(text) == [message |-> text]

\* dict.update: the keys of b take the values of b, the others stay.
update(d, b) ==
    [k \in DOMAIN d \cup DOMAIN b |-> IF k \in DOMAIN b THEN b[k] ELSE d[k]]

\* Sample.Messages.get
Messages_get(msgs) ==
    [res |-> Returned(Response(200, MessagesBody(msgs))), messages |-> msgs]

\* A post that replaces the stored messages by the body.
Messages_post_replaces(msgs, body) ==
    IF body.py = "dict"
    THEN [res |-> Returned(Response(200, MessagesBody(body.items))),
          messages |-> body.items]
    ELSE [res |-> Raised("ValueError"), messages |-> msgs]

\* Sample.Messages.post: dict.update raises on a body that is no mapping.
Messages_post(msgs, body) ==
    IF body.py = "dict"
    THEN [res |-> Returned(Response(200, MessagesBody(update(msgs, body.items)))),
          messages |-> update(msgs, body.items)]
    ELSE [res |-> Raised("ValueError"), messages |-> msgs]

\* A get that answers 200 whatever the id.
Message_get_always(msgs, mid) ==
    [res |-> Returned(Response(200,
                MessageBody(IF mid \in DOMAIN msgs THEN msgs[mid] ELSE ""))),
     messages |-> msgs]

\* Sample.Message.get
Message_get(msgs, mid) ==
    IF mid \notin DOMAIN msgs
    THEN [res |-> Returned(Response(404, MessageBody("message does not exists"))),
          messages |-> msgs]
    ELSE [res |-> Returned(Response(200, MessageBody(msgs[mid]))),
          messages |-> msgs]

\* A path parameter that takes any segment.
IsSegment(s) == Len(s) >= 1

\* {mid:\d+}: one digit or more, and nothing else.
IsNumeric(s) == Len(s) >= 1 /\ \A i \in 1..Len(s) : s[i] \in Digits

\* The resource whose endpoint the path matches.
Route(req) ==
    IF req.id = NoId THEN "Messages"
    ELSE IF IsNumeric(req.id) THEN "Message"
    ELSE "none"

\* What the handler a request is routed to does; no route raises "not
\* found" without any handler of the agent being called.
capability(req, msgs) ==
    LET h == CASE Route(req) = "Messages" /\ req.method = "GET" ->
                    Messages_get(msgs)
               [] Route(req) = "Messages" /\ req.method = "POST" ->
                    Messages_post(msgs, req.body)
               [] Route(req) = "Message" /\ req.method = "GET" ->
                    Message_get(msgs, req.id)
               [] OTHER ->
                    [res |-> Raised("HTTPNotFound"), messages |-> msgs]
    IN  [handled |-> Route(req) # "none", res |-> h.res,
         messages |-> h.messages]

Serve(req) ==
    LET h == capability(req, messages)
        r == ServerRespond(mw_capability(h.res, excHandler).out)
    IN  /\ messages' = h.messages
        /\ reply' = [request |-> req, handled |-> h.handled,
                     status |-> r.status, body |-> r.body]

NoReply == [request |-> Nothing]

\* A request to /message.
MessagesRequest ==
    /\ Idle
    /\ server = "listening"
    /\ \E req \in SampleRequests :
        /\ req.id = NoId
        /\ req.method = "POST" => Len(posted) < MaxPosts
        /\ Serve(req)
        /\ posted' = IF req.method = "POST"
                     THEN Append(posted, req.body)
                     ELSE posted
    /\ UNCHANGED <<stack, proc, sigHandlers, nSignals, nStops, nReq, loop,
                   excHandler, config, saved, buses, selfBus, server,
                   apiHandler, bound, routes, conns, reqConn, last, traffic>>

\* A request to /message/{id}.
MessageRequest ==
    /\ Idle
    /\ server = "listening"
    /\ \E req \in SampleRequests :
        /\ req.id # NoId
        /\ Serve(req)
    /\ UNCHANGED <<stack, proc, sigHandlers, nSignals, nStops, nReq, loop,
                   excHandler, config, saved, buses, selfBus, server,
                   apiHandler, bound, routes, conns, reqConn, last, traffic,
                   posted>>

(***************************************************************************)
(* Initial state: the agent as Nyuki.__init__ leaves it, start() entered.  *)
(***************************************************************************)
Configs == [bus : BusConfs, api : ApiConfs]

InitConfig == [bus |-> "jidA", api |-> "0.0.0.0:8080"]

NoRequest == [type |-> "nothing"]

\* The agent as Nyuki.__init__ leaves it, start() entered.
Created ==
    /\ stack = <<Frame("start", "sigterm", Nothing)>>
    /\ proc = "alive"
    /\ sigHandlers = {}
    /\ nSignals = 0
    /\ nStops = 0
    /\ nReq = 0
    /\ loop = "new"
    /\ excHandler \in BOOLEAN
    /\ config = InitConfig
    /\ saved = config
    /\ buses = <<NewBus(config.bus)>>
    /\ selfBus = 1
    /\ server = "None"
    /\ apiHandler = FALSE
    /\ bound = NoApi
    /\ routes = {}
    /\ conns = 0
    /\ reqConn = "none"
    /\ last = NoRequest

\* No bus traffic yet.
Quiet ==
    /\ sent = <<>>
    /\ requests = <<>>
    /\ pending = {}
    /\ outcome = NoCall
    /\ received = <<>>

\* Sample.__init__
Fresh ==
    /\ messages = InitialMessages
    /\ posted = <<>>
    /\ reply = NoReply

Init == Created /\ Quiet /\ Fresh

Next ==
    \/ StartSigterm
    \/ StartSigint
    \/ StartConnect
    \/ StartExpose
    \/ StartRun
    \/ LoopExit
    \/ BuildMakeHandler
    \/ BuildCreateServer
    \/ DestroyClose
    \/ DestroyFinish
    \/ DestroyWaitClosed
    \/ StopStep
    \/ StopReturn
    \/ Signal
    \/ AbortStop
    \/ AbortReturn
    \/ UserStop
    \/ OnStart
    \/ OnFailure
    \/ OnDisconnect
    \/ ClientConnect
    \/ HttpRequest
    \/ RequestCall
    \/ RequestAfter
    \/ RequestSend
    \/ PatchUpdate
    \/ PatchError
    \/ PatchReload
    \/ PatchRespond
    \/ ReloadStep
    \/ ReloadReturn
    \/ RestartDestroy
    \/ RestartBuild
    \/ RestartReturn

Spec == Init /\ [][Next]_vars

\* The main thread keeps executing the running call.
Run ==
    \/ StartSigterm \/ StartSigint \/ StartConnect \/ StartExpose \/ StartRun
    \/ LoopExit
    \/ BuildMakeHandler \/ BuildCreateServer
    \/ DestroyClose \/ DestroyFinish \/ DestroyWaitClosed
    \/ StopStep \/ StopReturn \/ AbortStop \/ AbortReturn
    \/ RequestCall \/ RequestAfter \/ RequestSend
    \/ PatchUpdate \/ PatchError \/ PatchReload \/ PatchRespond
    \/ ReloadStep \/ ReloadReturn
    \/ RestartDestroy \/ RestartBuild \/ RestartReturn

\* The transport reports what happens to a session while the loop runs.
Transport == OnStart \/ OnFailure \/ OnDisconnect

FairSpec == Spec /\ WF_vars(Run) /\ WF_vars(Transport)

\* The lifecycle on a transport whose registration may also time out.
SessionNext == Next \/ OnRegister

SessionSpec == Init /\ [][SessionNext]_vars

(***************************************************************************)
(* The agent at work: start() has reached the loop, the session of the bus *)
(* has started and the server listens, a state start() reaches.  The bus   *)
(* traffic and the requests to the sample resources are loop tasks of that *)
(* state.                                                                  *)
(***************************************************************************)
StartCalls == <<"signal", "signal", "connect", "expose", "loop.start">>

Serving ==
    /\ stack = <<[Frame("start", "loop", Nothing) EXCEPT !.did = StartCalls]>>
    /\ proc = "alive"
    /\ sigHandlers = Signals
    /\ nSignals = 0
    /\ nStops = 0
    /\ nReq = 0
    /\ loop = "running"
    /\ excHandler \in BOOLEAN
    /\ config = InitConfig
    /\ saved = config
    /\ buses = <<[NewBus(config.bus) EXCEPT !.state = "Connected",
                                            !.events = <<"Connected">>]>>
    /\ selfBus = 1
    /\ server = "listening"
    /\ apiHandler = TRUE
    /\ bound = config.api
    /\ routes = Capabilities
    /\ conns = 0
    /\ reqConn = "none"
    /\ last = NoRequest

AppInit == Serving /\ Quiet /\ Fresh

BusNext ==
    \/ Publish
    \/ Request
    \/ RequestError
    \/ RequestTimeout
    \/ Inbound

BusSpec == AppInit /\ [][BusNext]_vars

SampleNext ==
    \/ MessagesRequest
    \/ MessageRequest

SampleSpec == AppInit /\ [][SampleNext]_vars

(***************************************************************************)
(* Properties                                                              *)
(***************************************************************************)
StopCalls == <<"shutdown", "disconnect", "loop.stop">>

IsPrefix(s, t) == Len(s) <= Len(t) /\ s = SubSeq(t, 1, Len(s))

\* What each invocation of stop has done so far, in the states where it
\* is the running frame.
StopOrdered ==
    /\ \A i \in 1..Len(stack) :
        stack[i].op = "stop" => IsPrefix(stack[i].did, StopCalls)
    /\ Running("stop") =>
        /\ Len(Top.did) >= 1 => server = "closed"
        /\ Len(Top.did) >= 2 =>
                buses[selfBus].state \notin {"Connecting", "Connected"}
        /\ Len(Top.did) >= 3 => loop \in {"stopping", "stopped"}

\* A step of stop that disconnects a bus with a session does so after the
\* shutdown, with the timeout stop was given.
StopDisconnects ==
    (Running("stop") /\ buses' # buses) =>
        /\ Top.did = <<"shutdown">>
        /\ server = "closed"
        /\ buses'[selfBus].state = "Disconnecting"
        /\ buses'[selfBus].timeout = Top.arg

\* C1: every invocation of stop(timeout) shuts the Exposer down, then
\* disconnects the bus with the given timeout, then stops the event loop;
\* the bus disconnect never starts before the Exposer shutdown.
C1_StopOrder == []StopOrdered /\ [][StopDisconnects]_vars

C1_Witness ==
    /\ Running("stop")
    /\ Top.did = StopCalls
    /\ Top.arg = 1
    /\ buses[selfBus].timeout = 1

InvalidPatch(p) == ~Valid(merge_configs(config, p))

\* The request being handled is a PATCH /config with an invalid payload
\* and its response is ready.
InvalidPatchAnswered ==
    /\ Running("request")
    /\ Top.pc = "send"
    /\ Top.arg.kind = "PATCH /config"
    /\ InvalidPatch(Top.arg.payload)

InvalidPatchState ==
    /\ InvalidPatchAnswered =>
        /\ ServerRespond(Top.out.out) =
                [status |-> 400, body |-> ErrorBody("ValidationError")]
        /\ Top.did = <<"update_config">>
    /\ \A i \in 1..Len(stack) :
        (stack[i].op = "patch" /\ InvalidPatch(stack[i].arg)) =>
            /\ (i < Len(stack) => stack[i + 1].op # "reload")
            /\ "reload" \notin {stack[i].did[k] : k \in 1..Len(stack[i].did)}

InvalidPatchStep ==
    (Running("patch") /\ InvalidPatch(Top.arg)) =>
        UNCHANGED <<config, saved, buses, selfBus, server, apiHandler, bound,
                    routes, loop>>

\* C2: a PATCH /config whose payload violates the schema is answered 400
\* with the error message, never calls reload(), and no step of the handler
\* changes the configuration, the bus or the Exposer.
C2_InvalidPatch == []InvalidPatchState /\ [][InvalidPatchStep]_vars

C2_Witness ==
    /\ InvalidPatchAnswered
    /\ ServerRespond(Top.out.out).status = 400
    /\ config = InitConfig
    /\ server = "listening"

ReloadDone == Running("reload") /\ Top.pc = Len(ReloadOrder) + 1

ValidPatchAnswered ==
    /\ Running("request")
    /\ Top.pc = "send"
    /\ Top.arg.kind = "PATCH /config"
    /\ ~InvalidPatch(Top.arg.payload)

\* When reload() returns the patch is merged and saved and reload() was
\* called once, after the merge; unless a stop was requested meanwhile the
\* loop runs, the new bus built from the new configuration is connecting
\* and the server listens on the new api settings.
ValidPatchState ==
    /\ ReloadDone =>
        /\ stack[Len(stack) - 1].op = "patch"
        /\ stack[Len(stack) - 1].did = <<"update_config", "reload">>
        /\ Valid(config)
        /\ config = merge_configs(config, stack[Len(stack) - 1].arg)
        /\ saved = config
        /\ loop = "running" =>
            /\ buses[selfBus].conf = config.bus
            /\ buses[selfBus].state \in {"Connecting", "Connected"}
            /\ server = "listening"
            /\ bound = config.api
    /\ ValidPatchAnswered =>
        /\ Top.did = <<"update_config", "reload">>
        /\ ServerRespond(Top.out.out) =
                [status |-> 200, body |-> ConfigBody(config)]

ValidPatchStep ==
    (/\ Running("patch")
     /\ Top.pc = "update_config"
     /\ ~InvalidPatch(Top.arg)
     /\ nSignals' = nSignals) =>
        /\ config' = merge_configs(config, Top.arg)
        /\ Valid(config')

\* C3: a valid PATCH /config merges the patch, calls reload() exactly once
\* after the merge, leaves the agent running with the bus reconnecting on
\* the new configuration and the Exposer restarted on the new api settings
\* when reload() returns, and answers with the merged configuration.
C3_ValidPatch == []ValidPatchState /\ [][ValidPatchStep]_vars

C3_Witness ==
    /\ ReloadDone
    /\ loop = "running"
    /\ config = [bus |-> "jidB", api |-> "0.0.0.0:8081"]
    /\ buses[selfBus].state = "Connecting"

\* C4: at most one bus has a transport session (connecting, connected or
\* still disconnecting) at any time.
C4_OneLiveSession ==
    Cardinality({i \in 1..Len(buses) : Live(buses[i])}) <= 1

DisconnectedRaised(b) ==
    /\ b.state = "Disconnected"
    /\ b.events # <<>>
    /\ b.events[Len(b.events)] = "Disconnected"

\* C5: when the process has ended, every bus whose disconnect was requested
\* has raised its terminal Disconnected event.
C5_DisconnectedRaised ==
    proc = "exited" =>
        \A i \in 1..Len(buses) :
            buses[i].discReq => DisconnectedRaised(buses[i])

HandlerReturned(f) == f.op = "request" /\ f.pc = "send" /\ f.val.type = "return"

HandlerRaised(f) == f.op = "request" /\ f.pc = "send" /\ f.val.type = "raise"

\* C6: when the handler returned a Response the middleware returns that
\* Response and it is what the client is sent; when it returned anything
\* else the middleware returns an empty 200 response.
C6_ForwardResponse ==
    \A i \in 1..Len(stack) :
        HandlerReturned(stack[i]) =>
            IF stack[i].val.v.type = "Response"
            THEN /\ stack[i].out.out = Returned(stack[i].val.v)
                 /\ stack[i].out.hook = <<>>
                 /\ ServerRespond(stack[i].out.out) =
                        [status |-> stack[i].val.v.status,
                         body |-> stack[i].val.v.body]
            ELSE /\ stack[i].out.out = Returned(EmptyResponse)
                 /\ stack[i].out.hook = <<>>
                 /\ ServerRespond(stack[i].out.out) =
                        [status |-> 200, body |-> JsonBody("empty")]

C6_Witness ==
    /\ Running("request")
    /\ HandlerReturned(Top)
    /\ Top.val.v = Response(404, JsonBody("empty"))
    /\ Top.out.out = Returned(Response(404, JsonBody("empty")))

\* C7 as stated: "not found" is passed through unreported, and any other
\* exception is reported to the exception hook exactly once.
C7_HookOnce ==
    \A i \in 1..Len(stack) :
        HandlerRaised(stack[i]) =>
            /\ stack[i].out.out = Raised(stack[i].val.exc)
            /\ stack[i].out.hook =
                    IF stack[i].val.exc = "HTTPNotFound"
                    THEN <<>>
                    ELSE <<stack[i].val.exc>>

\* C7 amended: "not found" is passed through unreported; any other
\* exception is reported exactly once when an exception handler is set on
\* the loop and not reported by the middleware when none is set; it is
\* raised again in both cases.
C7_HookWhenSet ==
    \A i \in 1..Len(stack) :
        HandlerRaised(stack[i]) =>
            /\ stack[i].out.out = Raised(stack[i].val.exc)
            /\ stack[i].out.hook =
                    IF stack[i].val.exc # "HTTPNotFound" /\ excHandler
                    THEN <<stack[i].val.exc>>
                    ELSE <<>>

C7_Witness ==
    /\ Running("request")
    /\ HandlerRaised(Top)
    /\ Top.val.exc = "KeyError"
    /\ excHandler
    /\ Top.out.hook = <<"KeyError">>

ProgrammingError(f) == HandlerRaised(f) /\ f.val.exc # "HTTPNotFound"

\* C8 as stated: the middleware converts a programming error into a
\* response; the exception does not leave the middleware.
C8_Converted ==
    \A i \in 1..Len(stack) :
        ProgrammingError(stack[i]) => stack[i].out.out.type = "return"

ErrorAnswered ==
    \A i \in 1..Len(stack) :
        ProgrammingError(stack[i]) =>
            /\ stack[i].out.out = Raised(stack[i].val.exc)
            /\ ServerRespond(stack[i].out.out).status = 500
            /\ proc = "alive"
            /\ stack[1].op = "start"

RequestStep ==
    (Running("request") /\ nSignals' = nSignals) =>
        UNCHANGED <<proc, loop, server, apiHandler, bound, routes>>

\* C8 amended: the middleware raises a programming error again; the server
\* above it answers with a generic failure response, the process stays
\* alive and handling the request changes neither the server nor the loop,
\* so later requests are served.
C8_Reraised == []ErrorAnswered /\ [][RequestStep]_vars

C8_Witness ==
    /\ last # NoRequest
    /\ last.status = 500
    /\ Running("request")
    /\ Top.pc = "send"
    /\ ServerRespond(Top.out.out).status = 200

DestroyCalls == <<"close", "finish_connections", "wait_closed">>

InDestroy == \E i \in 1..Len(stack) : stack[i].op = "destroy"

DestroyOrdered ==
    /\ \A i \in 1..Len(stack) :
        stack[i].op = "destroy" => IsPrefix(stack[i].did, DestroyCalls)
    /\ Running("destroy") =>
        /\ Len(Top.did) >= 1 => server = "closed"
        /\ Len(Top.did) >= 2 => conns = 0 /\ reqConn # "open"

NoAcceptWhenClosed ==
    server # "listening" => conns' <= conns /\ nReq' = nReq

InReload == \E i \in 1..Len(stack) : stack[i].op = "reload"

ReloadServes ==
    (ReloadDone /\ loop = "running") =>
        /\ server = "listening"
        /\ bound = config.api
        /\ routes = Capabilities

\* C10: when reload() returns, and no stop was requested meanwhile, the
\* server listens on the host and port of the new configuration, and no
\* step of reload() changes the registered routes.
C10_ReloadServes == []ReloadServes /\ [][InReload => routes' = routes]_vars

C10_Witness ==
    /\ ReloadDone
    /\ loop = "running"
    /\ config.api = "0.0.0.0:8081"
    /\ bound = "0.0.0.0:8081"
    /\ server = "listening"

Stopped ==
    /\ proc = "exited"
    /\ loop = "stopped"
    /\ server = "closed"
    /\ buses[selfBus].state = "Disconnected"

\* C11: when a signal was handled by abort and start() has ended, the
\* agent is Stopped: the event loop is stopped, the Exposer is shut down
\* and the bus is disconnected.
C11_GracefulStop ==
    (nSignals > 0 /\ proc \in {"exited", "crashed"}) => Stopped

\* C19: Api.destroy starts only while the server it closes is there and
\* listening: never before build completed, never after a previous
\* destroy.
C19_DestroyOnlyBuilt ==
    (Running("destroy") /\ Top.pc = "close") => server = "listening"

\* C20: the response of a valid PATCH /config, no stop having been
\* requested, is sent on a connection that is still open.
C20_PatchAnswered ==
    (ValidPatchAnswered /\ nSignals = 0 /\ nStops = 0) => reqConn = "open"

BusEdges ==
    {<<"Disconnected", "Connecting">>, <<"Connecting", "Connected">>,
     <<"Connected", "Disconnecting">>, <<"Disconnecting", "Disconnected">>,
     <<"Connecting", "Disconnected">>}

\* The events a step makes bus i raise.
RaisedBy(i) ==
    SubSeq(buses'[i].events, Len(buses[i].events) + 1, Len(buses'[i].events))

\* What a step does to the bus objects: no bus is dropped, the state of a
\* bus moves along the edges E, and the events raised are those of the
\* transport callback that ran: Connected when the session starts,
\* Disconnected when it ends, ConnectionError then Disconnected when the
\* connection fails, ConnectionError alone when the registration times out.
BusStep(E) ==
    /\ Len(buses') >= Len(buses)
    /\ \A i \in 1..Len(buses) :
        LET from == buses[i].state
            to == buses'[i].state
        IN  /\ from # to => <<from, to>> \in E
            /\ IsPrefix(buses[i].events, buses'[i].events)
            /\ RaisedBy(i) =
                CASE from = "Connecting" /\ to = "Connected" -> <<"Connected">>
                  [] from = "Disconnecting" /\ to = "Disconnected" ->
                        <<"Disconnected">>
                  [] from = "Connecting" /\ to = "Disconnected" ->
                        <<"ConnectionError", "Disconnected">>
                  [] from = "Connecting" /\ to = "Connecting" ->
                        IF buses'[i] = buses[i] THEN <<>>
                        ELSE <<"ConnectionError">>
                  [] OTHER -> <<>>

C12_PublishTyped ==
    outcome.op = "publish" =>
        IF outcome.arg.py = "dict"
        THEN /\ outcome.result.type = "return"
             /\ Len(sent) = outcome.sentBefore + 1
             /\ loads(sent[Len(sent)].body) = Returned(outcome.arg)
             /\ sent[Len(sent)].to = muc_address(OwnTopic)
        ELSE /\ outcome.result = Raised("TypeError")
             /\ Len(sent) = outcome.sentBefore

C12_Witness ==
    /\ outcome.op = "publish"
    /\ outcome.arg = PyStr("not a dict")
    /\ outcome.result = Raised("TypeError")
    /\ Len(sent) = 1
    /\ sent[1].body = dumps(PyDict([message |-> "test"]))

\* The request that the transport failed and what it was called with.
Failed(exc) == outcome.op = "request" /\ outcome.arg.exc = exc

FailedArgs == requests[outcome.arg.id].args

\* C13: a request the transport fails does not raise: it returns the
\* exception, and it publishes exactly one document whose endpoint is the
\* target URL, whose error names the exception and whose data is the data
\* of the request.
C13_RequestError ==
    outcome.op = "request" =>
        /\ outcome.result = Returned(PyException(outcome.arg.exc))
        /\ Len(sent) = outcome.sentBefore + 1
        /\ loads(sent[Len(sent)].body) =
                Returned(PyDict(
                    [endpoint |-> <<"http://localhost:8080/",
                                    FailedArgs.recipient, "/api/",
                                    FailedArgs.endpoint>>,
                     error |-> <<outcome.arg.exc, "()">>,
                     data |-> FailedArgs.data]))

C13_Witness ==
    /\ Failed("ClientOSError")
    /\ FailedArgs = [recipient |-> "None", endpoint |-> "url",
                     method |-> "get", data |-> PyDict([message |-> "text"])]
    /\ Len(sent) = 1
    /\ outcome.result.type = "return"

Finished(id) == requests[id].results # <<>>

\* C14: the pending table holds exactly the requests sent and not yet
\* resolved or failed; an entry is created by the send, a request is
\* resolved or failed at most once, and a request that timed out holds one
\* timeout-classified error and has no entry left.
C14_PendingOnce ==
    /\ pending \subseteq 1..Len(requests)
    /\ \A id \in 1..Len(requests) :
        /\ Len(requests[id].results) <= 1
        /\ id \in pending <=> ~Finished(id)
    /\ outcome.op = "send" =>
        /\ Len(requests) \in pending
        /\ outcome.pendingBefore = pending \ {Len(requests)}
        /\ Len(requests) \notin outcome.pendingBefore
    /\ Failed("TimeoutError") =>
        /\ outcome.arg.id \notin pending
        /\ outcome.arg.id \in outcome.pendingBefore
        /\ requests[outcome.arg.id].results =
                <<[kind |-> "timeout",
                   value |-> Returned(PyException("TimeoutError"))]>>

\* Two requests timed out, then a reply to the first one came in.
C14_Witness ==
    /\ Len(requests) = 2
    /\ pending = {}
    /\ requests[1].results[1].kind = "timeout"
    /\ requests[2].results[1].kind = "timeout"
    /\ outcome.op = "inbound"
    /\ outcome.arg.subject = 1

Grown(seq, before) == SubSeq(seq, before + 1, Len(seq))

PostsOf(k) ==
    {i \in 1..Len(posted) :
        posted[i].py = "dict" /\ k \in DOMAIN posted[i].items}

PostedKeys == {k \in PostKeys : PostsOf(k) # {}}

LatestPost(k) == CHOOSE i \in PostsOf(k) : \A j \in PostsOf(k) : j <= i

\* The map m holds the initial keys and the posted keys and nothing else,
\* a posted key with the value of the latest POST that named it, an
\* initial key no POST named with its initial value.
Merged(m) ==
    /\ DOMAIN m = DOMAIN InitialMessages \cup PostedKeys
    /\ \A k \in PostedKeys : m[k] = posted[LatestPost(k)].items[k]
    /\ \A k \in DOMAIN InitialMessages \ PostedKeys : m[k] = InitialMessages[k]

Answered(method) ==
    /\ reply # NoReply
    /\ reply.request.id = NoId
    /\ reply.request.method = method

\* C17: whatever POST /message requests were handled, the stored messages
\* are the initial entries merged with the posted ones, latest value per
\* key, so that a body posted again changes nothing; GET /message answers
\* 200 with that map and leaves it as it is.
C17_MergedMessages ==
    /\ Merged(messages)
    /\ Answered("GET") =>
        /\ reply.handled
        /\ reply.status = 200
        /\ reply.body = [messages |-> messages]
    /\ (Answered("POST") /\ reply.request.body.py = "dict") =>
        /\ reply.status = 200
        /\ reply.body = [messages |-> messages]

\* The specification's example, posted twice, then read.
C17_Witness ==
    /\ Answered("GET")
    /\ Len(posted) = 2
    /\ posted[1] = [py |-> "dict", items |-> (<<"3">> :> "hi")]
    /\ posted[2] = posted[1]
    /\ reply.body.messages =
            (<<"1">> :> "message 1") @@ (<<"2">> :> "message 2")
                @@ (<<"3">> :> "hi")

AllDigits(s) == \A i \in DOMAIN s : s[i] \in Digits

MessageAnswered == reply # NoReply /\ reply.request.id # NoId

MessageReply ==
    MessageAnswered =>
        LET mid == reply.request.id
        IN  IF AllDigits(mid)
            THEN /\ reply.handled
                 /\ IF mid \in DOMAIN messages
                    THEN /\ reply.status = 200
                         /\ reply.body = [message |-> messages[mid]]
                    ELSE /\ reply.status = 404
                         /\ reply.body = [message |-> "message does not exists"]
            ELSE /\ ~reply.handled
                 /\ reply.status = 404

MessageStep ==
    (reply' # NoReply /\ reply'.request.id # NoId) => messages' = messages

\* C18: GET /message/{id} with a numeric id that is no key of the messages
\* answers 404 with an error message, with one that is a key 200 with that
\* message; with an id that is not numeric no handler is called and the
\* answer is the 404 of the router; the messages stay as they are.
C18_MessageById == []MessageReply /\ [][MessageStep]_vars

\* Key "3" was posted; "33" is numeric and no key.
C18_Witness ==
    /\ MessageAnswered
    /\ reply.request.id = <<"3", "3">>
    /\ reply.status = 404
    /\ reply.handled
    /\ <<"3">> \in DOMAIN messages

====
